---- MODULE Spec2Model ----
(***************************************************************************)
(* Board-game session scheduler: the REST handlers of backend/server.js    *)
(* over the Table collection (create, get, join, remove), with the         *)
(* external BoardGameGeek detail lookup used while a table is created.     *)
(*                                                                         *)
(* Join and remove suspend between their two storage operations (await    *)
(* findById, await save): each is two steps, and the steps of other        *)
(* requests may come between them in every specification that has them.    *)
(*                                                                         *)
(* Spec      creation requests of every shape, lookups and expiry.         *)
(* SpecPart  one table created from a plain request whose seats and        *)
(*           participants vary; joins and removes on it, on an id that     *)
(*           has no table and on an id that is no ObjectId.                *)
(* SpecBlank as SpecPart, with joins of missing, empty and blank names.    *)
(* SpecView  the preview page and the game detail lookup, over one table   *)
(*           of each kind the page tells apart, joined and left.           *)
(* SpecExt   creation requests whose external calls may stay unanswered.   *)
(* SpecClient the creation requests the client pages build from their      *)
(*           forms.                                                        *)
(* SpecLabel the label functions of the server and the client, applied to  *)
(*           every value a table can hold.                                 *)
(* SpecConc  joins and removes of two names on the tables the client       *)
(*           creates.                                                      *)
(* SpecRace  joins of one name and removes of another on one table.        *)
(***************************************************************************)
EXTENDS Integers, Sequences, FiniteSets, TLC

\* ---------------------------------------------------------------- bounds
MaxCreates == 1      \* creation requests handled in one behaviour
MaxPlayers == 2      \* largest playersNeeded a creation request carries
MaxReqs    == 2      \* join/remove requests in flight at once
MaxWeight  == 500    \* largest complexity value, in hundredths (SpecLabel)

\* ------------------------------------------------------ program constants
WindowDays == 30     \* oneMonthFromNow.setDate(getDate() + 30)

\* ------------------------------------------------------------- JS values
\* A string-valued field that is missing from a JSON body or a document.
Undefined == "undefined"
NA == "N/A"

\* JS truthiness of a string-or-undefined value: undefined and "" are falsy,
\* every other string (a blank " " included) is truthy.
Truthy(v) == v # Undefined /\ v # ""

\* An optional non-string value is a sequence of length 0 (missing) or 1.
None == << >>
Some(v) == << v >>

\* ------------------------------------------------ external game database
GameIds == {"g1", "g2"}

\* Outcome of one detail call: a usable record, a network failure (axios
\* throws), a body the XML parser rejects, a parsed record with no name.
Outcomes == {"ok", "neterr", "parseerr", "noname"}

\* axios.get is called without a timeout: a call the external service
\* never answers stays pending.
OutcomesOrHang == Outcomes \cup {"hang"}

\* The parsed "thing" record of a game id; averageweight in thousandths.
BggDb(id) ==
  IF id = "g1"
    THEN [id |-> "g1", name |-> "Catan", minplaytime |-> "60",
          maxplaytime |-> "120", averageweight |-> Some(2315)]
    ELSE [id |-> id, name |-> "Azul", minplaytime |-> "30",
          maxplaytime |-> "30", averageweight |-> None]

Digit2(n) == IF n < 10 THEN "0" \o ToString(n) ELSE ToString(n)

\* parseFloat(v) is the binary double nearest to the decimal v, here
\* t / 1000 = t / (8 * 125).  With 2^s the power of two that brings it
\* into [2^52, 2^53), the 53-bit significand is t * 2^(s - 3) / 125
\* rounded to an integer, so the remainder of t * 2^(s - 3) modulo 125
\* tells whether the double is the decimal (0), lies below it (less than
\* half of 125) or above it.
PowerOfTwoMod125[e \in 0..64] ==
  IF e = 0 THEN 1 ELSE (2 * PowerOfTwoMod125[e - 1]) % 125

\* Doublings that bring t to 1000 or more; halvings that leave it there.
RECURSIVE Doublings(_)
Doublings(t) == IF t >= 1000 THEN 0 ELSE 1 + Doublings(2 * t)
RECURSIVE Halvings(_)
Halvings(t) == IF t \div 2 >= 1000 THEN 1 + Halvings(t \div 2) ELSE 0

\* "exact", "below" or "above": the double of t / 1000 against t / 1000.
ParseFloatError(t) ==
  IF t = 0 THEN "exact"
  ELSE LET log == IF t >= 1000 THEN Halvings(t) ELSE 0 - Doublings(t)
           r == ((t % 125) * PowerOfTwoMod125[49 - log]) % 125
       IN  IF r = 0 THEN "exact"
           ELSE IF 2 * r < 125 THEN "below" ELSE "above"

\* parseFloat(v).toFixed(2) of a value given in thousandths: the hundredth
\* nearest to the double, the larger one if the double is halfway.  A
\* decimal ending in 5 goes down when its double lies below it.
ToFixed2(thousandths) ==
  LET up == \/ thousandths % 10 > 5
            \/ /\ thousandths % 10 = 5
               /\ ParseFloatError(thousandths) # "below"
      h == thousandths \div 10 + (IF up THEN 1 ELSE 0)
  IN  ToString(h \div 100) \o "." \o Digit2(h % 100)

\* The game-info object built from a parsed record.
GameInfoOf(bgg) ==
  [id             |-> bgg.id,
   name           |-> bgg.name,
   minPlayingTime |-> IF Truthy(bgg.minplaytime) THEN bgg.minplaytime ELSE NA,
   maxPlayingTime |-> IF Truthy(bgg.maxplaytime) THEN bgg.maxplaytime ELSE NA,
   complexity     |-> IF bgg.averageweight # None
                        THEN ToFixed2(bgg.averageweight[1]) ELSE NA]

\* The degraded entry pushed when a flexible game's lookup fails.
Placeholder(game) ==
  [id |-> game.id, name |-> game.name,
   minPlayingTime |-> NA, maxPlayingTime |-> NA, complexity |-> NA]

\* ---------------------------------------------------------------- labels
\* The text of a complexity value as creation stores it (two decimals).
WeightText == [h \in 0..MaxWeight |-> ToFixed2(10 * h)]
ComplexityTexts == {WeightText[h] : h \in 0..MaxWeight}

\* The number a string is converted to when it is compared with a number,
\* in hundredths: "" is 0; None stands for NaN (undefined, "N/A").
ToNumber(v) ==
  IF v = "" THEN Some(0)
  ELSE IF v \in ComplexityTexts
    THEN Some(CHOOSE h \in 0..MaxWeight : WeightText[h] = v)
    ELSE None

\* complexityValue < n; every comparison with NaN is false.
LessThan(v, n) == ToNumber(v) # None /\ ToNumber(v)[1] < 100 * n

getComplexityCategoryUpTo(complexityValue) ==
  IF LessThan(complexityValue, 2) \/ ToNumber(complexityValue) = Some(200)
    THEN "Light"
  ELSE IF LessThan(complexityValue, 3) THEN "Medium"
  ELSE IF LessThan(complexityValue, 4) THEN "Medium-Heavy"
  ELSE "Heavy"
getComplexityCategory(complexityValue) ==
  IF LessThan(complexityValue, 2) THEN "Light"
  ELSE IF LessThan(complexityValue, 3) THEN "Medium"
  ELSE IF LessThan(complexityValue, 4) THEN "Medium-Heavy"
  ELSE "Heavy"

\* The server's getComplexity and getPlayingTime.
getComplexity(complexityValue) ==
  IF ~Truthy(complexityValue) THEN "N/A"
  ELSE getComplexityCategory(complexityValue) \o " (" \o complexityValue
         \o ")"

getPlayingTime(minPlayingTime, maxPlayingTime) ==
  IF ~Truthy(minPlayingTime) \/ ~Truthy(maxPlayingTime) THEN "N/A"
  ELSE minPlayingTime \o "-" \o maxPlayingTime

\* The client's getComplexity and getPlayingTime.
clientGetComplexity(complexityValue) ==
  IF ~Truthy(complexityValue) \/ complexityValue = "N/A" THEN "N/A"
  ELSE getComplexityCategory(complexityValue) \o " (" \o complexityValue
         \o ")"

clientGetPlayingTime(minPlayingTime, maxPlayingTime) ==
  IF ~Truthy(minPlayingTime) \/ ~Truthy(maxPlayingTime) THEN "N/A"
  ELSE IF minPlayingTime = "N/A" /\ maxPlayingTime = "N/A" THEN "N/A"
  ELSE IF minPlayingTime = maxPlayingTime THEN minPlayingTime \o " min"
  ELSE minPlayingTime \o "-" \o maxPlayingTime \o " min"

\* formatDate: day, month name and year (en-GB, long month).  Dates are
\* counted in days from the day of the request, taken as 1 January of
\* NowYear, a year of 365 days.
NowYear == 2025
MonthNames ==
  << "January", "February", "March", "April", "May", "June", "July",
     "August", "September", "October", "November", "December" >>
MonthDays == << 31, 28, 31, 30, 31, 30, 31, 31, 30, 31, 30, 31 >>

RECURSIVE DayOfMonth(_, _)
DayOfMonth(n, month) ==
  IF n <= MonthDays[month] THEN [day |-> n, month |-> month]
  ELSE DayOfMonth(n - MonthDays[month], month + 1)

formatDate(date) ==
  LET d == DayOfMonth(date + 1, 1)
  IN  ToString(d.day) \o " " \o MonthNames[d.month] \o " "
        \o ToString(NowYear)

\* Arguments of the label functions: every value creation can store, and
\* the values of a document that lacks the field.
ComplexityValues == ComplexityTexts \cup {Undefined, "", NA}
PlayingTimes == {Undefined, "", NA, "30", "60", "120"}

\* ---------------------------------------------------------------- schema
\* Mongoose "required: true": a String path rejects undefined and "",
\* a Date or Number path rejects only a missing value (0 is accepted).
RequiredString(v) == Truthy(v)
RequiredValue(opt) == opt # None

TableSchemaValid(data) ==
  /\ RequiredValue(data.date)
  /\ RequiredString(data.time)
  /\ RequiredString(data.location)
  /\ RequiredValue(data.playersNeeded)

\* new Table(data): the document built from a request body that passed
\* validation; paths the body lacks take the schema defaults.
NewTable(data) ==
  [date          |-> data.date[1],
   time          |-> data.time,
   location      |-> data.location,
   playersNeeded |-> data.playersNeeded[1],
   participants  |-> data.participants,
   isFlexible    |-> data.isFlexible,
   gameName      |-> data.gameName,
   gameId        |-> data.gameId,
   gameData      |-> data.gameData,
   flexibleGames |-> IF data.flexibleGames = None THEN << >>
                     ELSE data.flexibleGames[1]]

\* ------------------------------------------------------------- responses
\* What a handler leaves behind: the statuses it tried to send in order
\* (the caller receives the first one; a second send on the same response
\* throws), the number of external detail calls it made, and the document
\* it saved, if any; events: its external calls ("call") and its pauses
\* ("sleep") in the order they happen; hung: it waits for a call for ever.
Result(sent, calls, doc) ==
  [sent |-> sent, calls |-> calls, doc |-> doc, events |-> << >>,
   hung |-> FALSE]
Hung(calls, events) ==
  [Result(<< >>, calls, None) EXCEPT !.events = events, !.hung = TRUE]

\* An exception that leaves an async handler: the framework either sends
\* nothing (status 0, the request is left open) or answers 500 itself.
UnhandledOutcomes == {0, 500}

\* Whether the framework's choice can show: only when the handler throws
\* before it sent anything.
UnhandledFor(r) ==
  IF r.sent = << >> /\ ~r.hung THEN UnhandledOutcomes ELSE {0}

\* The status the caller receives.
Received(sent, unh) == IF sent # << >> THEN Head(sent) ELSE unh

\* ------------------------------------------------------ POST /api/table
\* tableDate > oneMonthFromNow; an invalid (missing) date compares false.
TooFarOffBy(date) == date # None /\ date[1] > WindowDays + 1
TooFar(date) == date # None /\ date[1] > WindowDays

\* The loop over data.flexibleGames: entries without an id are skipped,
\* every other entry costs one detail call (outcome ext[k]) and pushes
\* either the fetched game info, followed by a pause, or the placeholder;
\* the loop never gets past a call that is not answered.
RECURSIVE FetchFlexibleStopsAtFailure(_, _, _)
FetchFlexibleStopsAtFailure(games, ext, k) ==
  IF games = << >>
    THEN [list |-> << >>, calls |-> 0, events |-> << >>, hung |-> FALSE]
  ELSE LET game == Head(games) IN
       IF ~Truthy(game.id) THEN FetchFlexibleStopsAtFailure(Tail(games), ext, k)
       ELSE IF ext[k] # "ok"
         THEN [list |-> << Placeholder(game) >>, calls |-> 1,
               events |-> << "call" >>, hung |-> FALSE]
         ELSE LET rest == FetchFlexibleStopsAtFailure(Tail(games), ext, k + 1)
              IN  [list |-> << GameInfoOf(BggDb(game.id)) >> \o rest.list,
                   calls |-> rest.calls + 1,
                   events |-> << "call", "sleep" >> \o rest.events,
                   hung |-> rest.hung]
RECURSIVE FetchFlexible(_, _, _)
FetchFlexible(games, ext, k) ==
  IF games = << >>
    THEN [list |-> << >>, calls |-> 0, events |-> << >>, hung |-> FALSE]
  ELSE LET game == Head(games) IN
       IF ~Truthy(game.id) THEN FetchFlexible(Tail(games), ext, k)
       ELSE IF ext[k] = "hang"
         THEN [list |-> << >>, calls |-> 1, events |-> << "call" >>,
               hung |-> TRUE]
       ELSE LET rest == FetchFlexible(Tail(games), ext, k + 1)
                item == IF ext[k] = "ok" THEN GameInfoOf(BggDb(game.id))
                        ELSE Placeholder(game)
                evs == IF ext[k] = "ok" THEN << "call", "sleep" >>
                       ELSE << "call" >>
            IN  [list |-> << item >> \o rest.list, calls |-> rest.calls + 1,
                 events |-> evs \o rest.events, hung |-> rest.hung]

\* new Table(data); await newTable.save(); res.json({id}): a body that
\* fails schema validation makes save() throw out of the handler.
SaveAndRespond(data, sent, calls) ==
  IF TableSchemaValid(data)
    THEN Result(sent \o << 200 >>, calls, Some(NewTable(data)))
    ELSE Result(sent, calls, None)

\* !Array.isArray(data.flexibleGames) || data.flexibleGames.length < 1
\* (a value that is no array is seen here only, and like a missing one).
NoGamesOnlyIfMissing(flexibleGames) == flexibleGames = None
NoGames(flexibleGames) ==
  flexibleGames = None \/ Len(flexibleGames[1]) < 1

\* delete data.gameName; delete data.gameId; delete data.gameData
StripSingleKeepsId(data) ==
  [data EXCEPT !.gameName = Undefined, !.gameData = None]
StripSingle(data) ==
  [data EXCEPT !.gameName = Undefined, !.gameId = Undefined,
               !.gameData = None]

\* delete data.flexibleGames
StripFlexible(data) == [data EXCEPT !.flexibleGames = None]

CreateTable(data, ext) ==
  IF TooFar(data.date) THEN Result(<< 400 >>, 0, None)
  ELSE IF data.isFlexible
    THEN IF NoGames(data.flexibleGames)
           THEN Result(<< 400 >>, 0, None)
           ELSE LET f == FetchFlexible(data.flexibleGames[1], ext, 1)
                    d == [StripSingle(data) EXCEPT
                            !.flexibleGames = Some(f.list)]
                IN  IF f.hung THEN Hung(f.calls, f.events)
                    ELSE [SaveAndRespond(d, << >>, f.calls) EXCEPT
                            !.events = f.events]
    ELSE LET d0 == StripFlexible(data) IN
         IF ~Truthy(data.gameId) THEN SaveAndRespond(d0, << >>, 0)
         ELSE IF ext[1] = "hang" THEN Hung(1, << "call" >>)
         ELSE LET r == IF ext[1] = "ok"
                         THEN SaveAndRespond(
                                [d0 EXCEPT !.gameData =
                                   Some(GameInfoOf(BggDb(data.gameId)))],
                                << >>, 1)
                       ELSE IF ext[1] = "parseerr"
                         THEN SaveAndRespond(d0, << 500 >>, 1)
                         ELSE SaveAndRespond(d0, << >>, 1)
              IN  [r EXCEPT !.events = << "call" >>]

\* ------------------------------------------------------- request inputs
Times == {Undefined, "18:00"}
Locations == {Undefined, "Cafe"}
Dates == {None, Some(WindowDays), Some(WindowDays + 1)}
Players == {None} \cup {Some(n) : n \in 0..MaxPlayers}
ParticipantLists == {<< >>, << "Ann" >>, << "Ann", "Bob" >>}

Custom(name) == [id |-> Undefined, name |-> name]
Picked(id, name) == [id |-> id, name |-> name]

\* flexibleGames of a request: missing, empty, custom entries only, and
\* mixtures with one or two picked games.
FlexLists ==
  {None, Some(<< >>),
   Some(<< Custom("Risk") >>),
   Some(<< Custom("Risk"), Custom("Uno") >>),
   Some(<< Picked("g1", "Catan") >>),
   Some(<< Custom("Risk"), Picked("g1", "Catan") >>),
   Some(<< Picked("g1", "Catan"), Picked("g2", "Azul") >>)}

NumPicked(fl) ==
  IF fl = None THEN 0
  ELSE Cardinality({i \in 1..Len(fl[1]) : Truthy(fl[1][i].id)})

NumMissing(data) ==
  (IF data.date = None THEN 1 ELSE 0) + (IF Truthy(data.time) THEN 0 ELSE 1)
  + (IF Truthy(data.location) THEN 0 ELSE 1)
  + (IF data.playersNeeded = None THEN 1 ELSE 0)

\* The fields every mode shares; at most one required field is missing.
BaseInputs ==
  {b \in [date : Dates, time : Times, location : Locations,
          playersNeeded : Players, participants : ParticipantLists] :
     NumMissing(b) <= 1}

SimpleBases ==
  [date : {Some(WindowDays), Some(WindowDays + 1)}, time : {"18:00"},
   location : Locations, playersNeeded : {Some(MaxPlayers)},
   participants : {<< >>, << "Ann" >>}]

\* A flexible request that carries every single-mode field as well.
StrayFlexible ==
  [isFlexible |-> TRUE, gameName |-> "Catan", gameId |-> "g1",
   gameData |-> Some(GameInfoOf(BggDb("g1"))),
   flexibleGames |-> Some(<< Custom("Risk"), Picked("g2", "Azul") >>)]

\* The fields of the two modes, with stray fields of the other mode.
ModeInputs ==
  [isFlexible : {FALSE}, gameName : {Undefined, "Catan"},
   gameId : {Undefined, "g1"}, gameData : {None},
   flexibleGames : {None, Some(<< Picked("g1", "Catan") >>)}]
  \cup
  [isFlexible : {TRUE}, gameName : {Undefined, "Catan"},
   gameId : {Undefined}, gameData : {None}, flexibleGames : FlexLists]
  \cup
  {StrayFlexible}

SingleMode ==
  [isFlexible |-> FALSE, gameName |-> "Catan", gameId |-> Undefined,
   gameData |-> None, flexibleGames |-> None]
FlexibleMode ==
  [isFlexible |-> TRUE, gameName |-> Undefined, gameId |-> Undefined,
   gameData |-> None, flexibleGames |-> Some(<< Picked("g1", "Catan") >>)]
SimpleModes == {SingleMode, FlexibleMode}

\* The external calls a request can make, and so the outcomes it needs.
NumCalls(m) ==
  IF m.isFlexible THEN NumPicked(m.flexibleGames)
  ELSE IF Truthy(m.gameId) THEN 1 ELSE 0

ExtFor(m) ==
  IF NumCalls(m) = 0 THEN {<< "ok", "ok" >>}
  ELSE IF NumCalls(m) = 1 THEN {<< o, "ok" >> : o \in Outcomes}
  ELSE Outcomes \X Outcomes

Merge(b, m) ==
  [date |-> b.date, time |-> b.time, location |-> b.location,
   playersNeeded |-> b.playersNeeded, participants |-> b.participants,
   isFlexible |-> m.isFlexible, gameName |-> m.gameName,
   gameId |-> m.gameId, gameData |-> m.gameData,
   flexibleGames |-> m.flexibleGames]

Bodies(bases, modes) ==
  UNION {{[data |-> Merge(b, m), ext |-> e] : b \in bases, e \in ExtFor(m)} :
           m \in modes}

\* Creation requests of Spec: every shared part with a plain mode part,
\* and every mode part with a plain shared part.
CreateInputs == Bodies(BaseInputs, SimpleModes) \cup Bodies(SimpleBases, ModeInputs)

\* Creation requests of SpecPart: the seats and the participants vary.
PartInputs ==
  Bodies([date : {Some(WindowDays)}, time : {"18:00"}, location : {"Cafe"},
          playersNeeded : {Some(n) : n \in 0..MaxPlayers},
          participants : ParticipantLists
                           \cup {<< "Ann", "Bob", "Ann" >>,
                                 << "Ann", "Bob", "Cid" >>}],
         {SingleMode})

\* Creation requests of SpecView: tables with and without an organizer,
\* a game name, fetched game data (rated or not, of one or of two playing
\* times) and flexible games.
ViewModes ==
  {[SingleMode EXCEPT !.gameName = n, !.gameId = g] :
     n \in {Undefined, "Catan"}, g \in {Undefined} \cup GameIds}
  \cup
  {[FlexibleMode EXCEPT !.flexibleGames = Some(fg)] :
     fg \in {<< Custom("Risk") >>,
              << Picked("g1", "Catan"), Picked("g2", "Azul") >>}}

ViewInputs ==
  Bodies([date : {Some(WindowDays)}, time : {"18:00"}, location : {"Cafe"},
          playersNeeded : {Some(MaxPlayers)},
          participants : {<< >>, << "Ann" >>}],
         ViewModes)

\* Creation requests of SpecExt: valid bodies whose external calls can
\* also stay unanswered.
ExtOrHangFor(m) ==
  IF NumCalls(m) = 0 THEN {<< "ok", "ok" >>}
  ELSE IF NumCalls(m) = 1 THEN {<< o, "ok" >> : o \in OutcomesOrHang}
  ELSE OutcomesOrHang \X OutcomesOrHang

ExtModes ==
  {SingleMode, [SingleMode EXCEPT !.gameId = "g1"]}
  \cup
  {[FlexibleMode EXCEPT !.flexibleGames = Some(fg)] :
     fg \in {<< Custom("Risk"), Picked("g1", "Catan") >>,
              << Picked("g1", "Catan"), Picked("g2", "Azul") >>}}

ExtBases ==
  [date : {Some(WindowDays), Some(WindowDays + 1)}, time : {"18:00"},
   location : {"Cafe"}, playersNeeded : {Some(MaxPlayers)},
   participants : {<< >>, << "Ann" >>}]

ExtInputs ==
  UNION {{[data |-> Merge(b, m), ext |-> e] :
            b \in ExtBases, e \in ExtOrHangFor(m)} : m \in ExtModes}

\* Creation requests of SpecConc: those of the shipped client, whose form
\* validation has passed; the organizer is the only participant.
ClientInputs ==
  Bodies([date : {Some(WindowDays)}, time : {"18:00"}, location : {"Cafe"},
          playersNeeded : {Some(n) : n \in 1..MaxPlayers},
          participants : {<< >>, << "Ann" >>}],
         {SingleMode})

\* Names of join and remove requests: missing, empty, blank, proper.
JoinNames == {Undefined, "", "Ann"}
BlankNames == {Undefined, "", " "}
ClientNames == {"Ann", "Bob"}
OneName == {"Ann"}

\* ------------------------------------------------- client: createTable
\* The form of the organizer page: formData and organizerName.  app names
\* the page that submits it: "single" (frontend/src/App.jsx, no flexible
\* mode) or "flexible" (the page with both modes).
Form(app, seats, joins, name, gameId, isFlexible, flexibleGames) ==
  [app |-> app, date |-> Some(WindowDays), time |-> "18:00",
   location |-> "Cafe", gameName |-> "Catan", gameId |-> gameId,
   playersNeeded |-> seats, organizerJoins |-> joins,
   organizerName |-> name, isFlexible |-> isFlexible,
   flexibleGames |-> flexibleGames]

OrganizerNames == {" ", "Ann", " Bob "}

\* organizerName.trim()
Trim(name) ==
  IF name = " " THEN "" ELSE IF name = " Bob " THEN "Bob" ELSE name

FormGames ==
  {<< >>, << Picked("g1", "Catan"), Custom("Risk") >>}

Forms ==
  {Form("single", n, oj, on, gid, FALSE, << >>) :
     n \in 0..MaxPlayers, oj \in BOOLEAN, on \in OrganizerNames,
     gid \in {Undefined, "g1"}}
  \cup
  {Form("flexible", n, oj, on, Undefined, fl, fg) :
     n \in 0..MaxPlayers, oj \in BOOLEAN, on \in OrganizerNames,
     fl \in BOOLEAN, fg \in FormGames}

\* formData.flexibleGames.filter(g => g.name.trim()).length
NumNamed(games) ==
  Cardinality({i \in 1..Len(games) : Truthy(Trim(games[i].name))})

\* The checks after which createTable alerts and returns.
FormValid(form) ==
  /\ form.date # None
  /\ Truthy(form.time)
  /\ Truthy(form.location)
  /\ form.app = "single" => Truthy(form.gameName)
  /\ ~(form.playersNeeded < 1)
  /\ Truthy(Trim(form.organizerName))
  /\ (form.app = "flexible" /\ form.isFlexible)
       => ~(NumNamed(form.flexibleGames) < 2)

\* The payload: formData and the participants; the page with both modes
\* also drops the fields of the other mode.
PayloadAlwaysJoins(form) ==
  [date |-> form.date, time |-> form.time, location |-> form.location,
   playersNeeded |-> Some(form.playersNeeded),
   participants |-> << form.organizerName >>,
   isFlexible |-> form.isFlexible,
   gameName |-> IF form.isFlexible THEN Undefined ELSE form.gameName,
   gameId |-> IF form.isFlexible THEN Undefined ELSE form.gameId,
   gameData |-> None,
   flexibleGames |-> IF form.isFlexible THEN Some(form.flexibleGames)
                     ELSE None]
Payload(form) ==
  [date |-> form.date, time |-> form.time, location |-> form.location,
   playersNeeded |-> Some(form.playersNeeded),
   participants |-> IF form.organizerJoins THEN << form.organizerName >>
                    ELSE << >>,
   isFlexible |-> form.isFlexible,
   gameName |-> IF form.isFlexible THEN Undefined ELSE form.gameName,
   gameId |-> IF form.isFlexible THEN Undefined ELSE form.gameId,
   gameData |-> None,
   flexibleGames |-> IF form.isFlexible THEN Some(form.flexibleGames)
                     ELSE None]

\* ----------------------------------------------------------------- state
VARIABLES
  tables,   \* the Table collection: stored id -> document
  before,   \* the collection as it was when the last step began
  nextId,   \* the id the next saved document gets (ids are never reused)
  creates,  \* creation requests handled so far
  req,      \* the request the last step worked on
  resp,     \* the response that step produced
  reqs      \* the join/remove requests between findById and save

vars == << tables, before, nextId, creates, req, resp, reqs >>

\* An id string of a request that does not cast to an ObjectId ("abc").
MalformedId == 0 - 1
IsObjectId(id) == id # MalformedId

\* Ids a request may name: every id that can be created, one that never
\* is, and one that is no ObjectId.
ReqIds == (1..(MaxCreates + 1)) \cup {MalformedId}
Procs == 1..MaxReqs

\* op: "create", "get", "join", "remove"; "find" for the first half of a
\* join or remove that is still waiting for its save; "none" after a step
\* of the storage layer.  body: of a creation, the request and the
\* outcomes of its external calls, with the client form it was built
\* from, if any; of a join or remove that has answered, whether the
\* stored document was written or dropped between its findById and its
\* save.
Request(op, id, name, body) ==
  [op |-> op, id |-> id, name |-> name, body |-> body]
NoReq == Request("none", 0, Undefined, None)

\* status 0: no response was sent.  id: the id a creation response carries.
\* sends: responses the handler tried to send.  calls: external detail
\* calls it made.  doc: the table document a get, join or remove response
\* carries.  events: the external calls and pauses of the handler.  text:
\* the texts of a preview response (title, description) or of a label.
Response(status) ==
  [status |-> status, id |-> 0, sends |-> IF status = 0 THEN 0 ELSE 1,
   calls |-> 0, doc |-> None, events |-> << >>, text |-> << >>]
Respond(status, doc) == [Response(status) EXCEPT !.doc = doc]
NoResp == Response(0)

\* A request between its findById and its save: the document it loaded,
\* as changed locally (doc), whether the change modified the participants
\* path (dirty), and whether another save has bumped the stored version
\* since the load (stale).
Pending(pc, id, name, doc, dirty) ==
  [pc |-> pc, id |-> id, name |-> name, doc |-> doc, dirty |-> dirty,
   stale |-> FALSE]
Idle == Pending("idle", 0, Undefined, None, FALSE)

Init ==
  /\ tables = << >>
  /\ before = << >>
  /\ nextId = 1
  /\ creates = 0
  /\ req = NoReq
  /\ resp = NoResp
  /\ reqs = [p \in Procs |-> Idle]

\* ------------------------------------------------------- storage layer
\* Table.findById(id): the promise rejects (CastError) for an id that does
\* not cast to an ObjectId, and resolves to the stored document or to
\* null otherwise.
Rejected == [rejected |-> TRUE, doc |-> None]
Resolved(doc) == [rejected |-> FALSE, doc |-> doc]
FindById(store, id) ==
  IF ~IsObjectId(id) THEN Rejected
  ELSE Resolved(IF id \in DOMAIN store THEN Some(store[id]) ELSE None)

\* The collection drops a document once its time to live has passed.
Expire(id) ==
  /\ id \in DOMAIN tables
  /\ tables' = [i \in DOMAIN tables \ {id} |-> tables[i]]
  /\ before' = tables
  /\ req' = NoReq
  /\ resp' = NoResp
  /\ UNCHANGED << nextId, creates, reqs >>

\* A handler is suspended at each await: between the findById and the
\* save of a join or a remove other requests run.  A save that changed
\* the participants array increments the document's version: every other
\* request that loaded the document before is stale.
MarkStale(rs, p, id) ==
  [q \in Procs |->
     IF q # p /\ rs[q].pc # "idle" /\ rs[q].id = id
       THEN [rs[q] EXCEPT !.stale = TRUE] ELSE rs[q]]

\* Requests are interchangeable: a new one takes the lowest free slot.
FreeSlot(p) ==
  reqs[p].pc = "idle" /\ \A q \in Procs : q < p => reqs[q].pc # "idle"

\* Whether the document a request loaded was written by another request
\* or dropped by the collection before the request saved.
Overlapped(pending) == pending.stale \/ pending.id \notin DOMAIN tables
Answered(overlapped) == Some([overlapped |-> overlapped])

\* ------------------------------------------------- POST /api/table (step)
\* form: the client form the request was built from, if any.
CreateFrom(data, ext, form) ==
  /\ creates < MaxCreates
  /\ creates' = creates + 1
  /\ before' = tables
  /\ LET r == CreateTable(data, ext) IN
     /\ tables' = IF r.doc = None THEN tables
                  ELSE tables @@ (nextId :> r.doc[1])
     /\ nextId' = IF r.doc = None THEN nextId ELSE nextId + 1
     /\ req' = Request("create", 0, Undefined,
                       Some([data |-> data, ext |-> ext, form |-> form]))
     /\ \E unh \in UnhandledFor(r) :
          LET status == Received(r.sent, unh) IN
          resp' = [status |-> status,
                   id |-> IF status = 200 THEN nextId ELSE 0,
                   sends |-> IF r.sent = << >> /\ unh # 0 THEN 1
                             ELSE Len(r.sent),
                   calls |-> r.calls,
                   doc |-> None,
                   events |-> r.events,
                   text |-> << >>]
  /\ UNCHANGED reqs

Create(data, ext) == CreateFrom(data, ext, None)

\* createTable of the client: the form checks, the payload, the POST; the
\* GET that follows reads the new table and changes nothing stored.
ClientCreate(form, ext) ==
  /\ FormValid(form)
  /\ CreateFrom(Payload(form), ext, Some(form))

\* ------------------------------------------------- GET /api/table/:id
\* The statuses the caller of the route can receive: the handler has no
\* try/catch, so a rejected lookup leaves it and the framework sends
\* nothing or answers 500; a lookup that resolved answers 404 or 200.
GetTable(store, id) ==
  LET found == FindById(store, id) IN
  IF found.rejected THEN UnhandledOutcomes
  ELSE IF found.doc = None THEN {404}
  ELSE {200}

Get(id) ==
  /\ req' = Request("get", id, Undefined, None)
  /\ \E status \in GetTable(tables, id) :
       resp' = Respond(status, FindById(tables, id).doc)
  /\ before' = tables
  /\ UNCHANGED << tables, nextId, creates, reqs >>

\* ------------------------------------------- POST /api/table/:id/join
\* table.participants.length < table.playersNeeded && name
CanJoinUpTo(table, name) ==
  Len(table.participants) <= table.playersNeeded /\ Truthy(name)
CanJoinAnyone(table, name) == Truthy(name)
CanJoin(table, name) ==
  Len(table.participants) < table.playersNeeded /\ Truthy(name)

\* table.participants.push(name)
PushFront(table, name) ==
  [table EXCEPT !.participants = << name >> \o table.participants]
PushTakesSeat(table, name) ==
  [table EXCEPT !.participants = Append(table.participants, name),
                !.playersNeeded = @ - 1]
Push(table, name) ==
  [table EXCEPT !.participants = Append(table.participants, name)]

\* join, up to "await table.save()": load, check, push on the loaded copy.
\* The handler has no try/catch: a rejected lookup leaves it.
JoinFind(p, id, name) ==
  /\ reqs[p].pc = "idle"
  /\ LET found == FindById(tables, id) IN
     IF found.rejected
       THEN /\ req' = Request("join", id, name, Answered(FALSE))
            /\ \E unh \in UnhandledOutcomes : resp' = Response(unh)
            /\ UNCHANGED reqs
     ELSE IF found.doc = None
       THEN /\ req' = Request("join", id, name, Answered(FALSE))
            /\ resp' = Response(404)
            /\ UNCHANGED reqs
     ELSE IF ~CanJoin(found.doc[1], name)
       THEN /\ req' = Request("join", id, name, Answered(FALSE))
            /\ resp' = Response(400)
            /\ UNCHANGED reqs
       ELSE /\ req' = Request("find", id, name, None)
            /\ resp' = NoResp
            /\ reqs' = [reqs EXCEPT ![p] =
                 Pending("join", id, name,
                         Some(Push(found.doc[1], name)), TRUE)]
  /\ before' = tables
  /\ UNCHANGED << tables, nextId, creates >>

\* join, the save and the response: the name is pushed onto the array
\* as it is stored now ($push), whatever the loaded copy held, and the
\* response carries the loaded copy with the name; a document that is
\* gone makes save() throw out of the handler.
JoinSave(p) ==
  /\ reqs[p].pc = "join"
  /\ LET id == reqs[p].id
         name == reqs[p].name
     IN  /\ req' = Request("join", id, name, Answered(Overlapped(reqs[p])))
         /\ IF id \notin DOMAIN tables
              THEN /\ \E unh \in UnhandledOutcomes : resp' = Response(unh)
                   /\ tables' = tables
                   /\ reqs' = [reqs EXCEPT ![p] = Idle]
              ELSE /\ resp' = Respond(200, reqs[p].doc)
                   /\ tables' = [tables EXCEPT ![id] = Push(@, name)]
                   /\ reqs' = [MarkStale(reqs, p, id) EXCEPT ![p] = Idle]
  /\ before' = tables
  /\ UNCHANGED << nextId, creates >>

\* ---------------------------------------------------- GET /preview/:id
\* table.flexibleGames.map(g => g.name).join(", ")
RECURSIVE JoinGameNames(_)
JoinGameNames(games) ==
  IF games = << >> THEN ""
  ELSE IF Len(games) = 1 THEN games[1].name
  ELSE games[1].name \o ", " \o JoinGameNames(Tail(games))

\* table.participants[0] || "Unknown"
FirstParticipant(table) ==
  IF table.participants # << >> /\ Truthy(table.participants[1])
    THEN table.participants[1] ELSE "Unknown"

\* table.gameData?.name || table.gameName || "Board Game"
PreviewGameName(table) ==
  IF table.gameData # None /\ Truthy(table.gameData[1].name)
    THEN table.gameData[1].name
  ELSE IF Truthy(table.gameName) THEN table.gameName
  ELSE "Board Game"

\* The separator of the title parts: a bullet between two spaces (the
\* bullet is written as an asterisk here).
Separator == " * "

\* The title and the description of the page; a flexible table without
\* games takes the single-game branch.
PreviewTexts(table) ==
  LET rest == formatDate(table.date) \o Separator \o table.time \o Separator
                \o table.location \o " by " \o FirstParticipant(table)
      gd == IF table.gameData # None THEN table.gameData[1]
            ELSE [minPlayingTime |-> Undefined, maxPlayingTime |-> Undefined,
                  complexity |-> Undefined]
  IN  IF table.isFlexible /\ Len(table.flexibleGames) > 0
        THEN << rest, JoinGameNames(table.flexibleGames) >>
        ELSE << PreviewGameName(table) \o Separator \o rest,
                "Duration: "
                  \o getPlayingTime(gd.minPlayingTime, gd.maxPlayingTime)
                  \o " min; Complexity: " \o getComplexity(gd.complexity) >>

PreviewTable(store, id) ==
  LET found == FindById(store, id) IN
  IF found.rejected THEN [status |-> 500, text |-> << >>]
  ELSE IF found.doc = None THEN [status |-> 404, text |-> << >>]
  ELSE [status |-> 200, text |-> PreviewTexts(found.doc[1])]

Preview(id) ==
  /\ LET r == PreviewTable(tables, id) IN
     /\ req' = Request("preview", id, Undefined, None)
     /\ resp' = [Response(r.status) EXCEPT !.text = r.text]
  /\ before' = tables
  /\ UNCHANGED << tables, nextId, creates, reqs >>

\* ------------------------------------------------------ GET /api/game/:id
\* The game-detail route of the earlier server revision.  The name is read
\* (game.name[0]) before the record is tested for a name: a record
\* without one throws inside the parser callback, and the handler's catch
\* answers 500.  The 404 after the test is never reached by such a record.
GameDetailOf(id, outcome) ==
  IF outcome = "hang" THEN [status |-> 0, doc |-> None]
  ELSE IF outcome = "neterr" THEN [status |-> 500, doc |-> None]
  ELSE IF outcome = "parseerr" THEN [status |-> 500, doc |-> None]
  ELSE IF outcome = "noname" THEN [status |-> 500, doc |-> None]
  ELSE [status |-> 200, doc |-> Some(GameInfoOf(BggDb(id)))]

GameDetail(id, outcome) ==
  /\ LET r == GameDetailOf(id, outcome) IN
     /\ req' = Request("game", id, Undefined, Some([ext |-> << outcome >>]))
     /\ resp' = [Respond(r.status, r.doc) EXCEPT !.calls = 1,
                                                 !.events = << "call" >>]
  /\ before' = tables
  /\ UNCHANGED << tables, nextId, creates, reqs >>

\* ----------------------------------------- POST /api/table/:id/remove
\* table.participants.filter(p => p !== name)
RECURSIVE FilterFirst(_, _)
FilterFirst(participants, name) ==
  IF participants = << >> THEN << >>
  ELSE IF Head(participants) = name THEN Tail(participants)
  ELSE << Head(participants) >> \o FilterFirst(Tail(participants), name)
RECURSIVE FilterReversed(_, _)
FilterReversed(participants, name) ==
  IF participants = << >> THEN << >>
  ELSE IF Head(participants) = name
    THEN FilterReversed(Tail(participants), name)
  ELSE Append(FilterReversed(Tail(participants), name), Head(participants))
Filter(participants, name) ==
  SelectSeq(participants, LAMBDA p : p # name)

\* remove, up to "await table.save()": load, filter the loaded copy.
\* The lookup is inside the try: the catch answers a rejected one.
RemoveFind(p, id, name) ==
  /\ reqs[p].pc = "idle"
  /\ LET found == FindById(tables, id) IN
     IF found.rejected
       THEN /\ req' = Request("remove", id, name, Answered(FALSE))
            /\ resp' = Response(500)
            /\ UNCHANGED reqs
     ELSE IF found.doc = None
       THEN /\ req' = Request("remove", id, name, Answered(FALSE))
            /\ resp' = Response(404)
            /\ UNCHANGED reqs
       ELSE LET kept == Filter(found.doc[1].participants, name) IN
            /\ req' = Request("find", id, name, None)
            /\ resp' = NoResp
            /\ reqs' = [reqs EXCEPT ![p] =
                 Pending("remove", id, name,
                         Some([found.doc[1] EXCEPT !.participants = kept]),
                         kept # found.doc[1].participants)]
  /\ before' = tables
  /\ UNCHANGED << tables, nextId, creates >>

\* The version condition of a save that replaces the array: the stored
\* version must still be the loaded one.
VersionIgnored(pending) == TRUE
VersionMatches(pending) == ~pending.stale

\* The write of a save that replaces the array ($set): the document
\* stays stored, also with an empty array.
SetParticipantsDropsEmpty(store, id, participants) ==
  IF participants = << >> THEN [i \in DOMAIN store \ {id} |-> store[i]]
  ELSE [store EXCEPT ![id].participants = participants]
SetParticipants(store, id, participants) ==
  [store EXCEPT ![id].participants = participants]

\* remove, the save and the response: an unchanged array writes nothing;
\* a changed one replaces the stored array if the stored version is
\* still the loaded one, and fails otherwise; the handler catches every
\* failure of save() and answers 500.
RemoveSave(p) ==
  /\ reqs[p].pc = "remove"
  /\ LET id == reqs[p].id
         name == reqs[p].name
         writes == /\ id \in DOMAIN tables /\ reqs[p].dirty
                   /\ VersionMatches(reqs[p])
     IN  /\ req' = Request("remove", id, name, Answered(Overlapped(reqs[p])))
         /\ reqs' = [(IF writes THEN MarkStale(reqs, p, id) ELSE reqs)
                     EXCEPT ![p] = Idle]
         /\ tables' = IF writes
                        THEN SetParticipants(tables, id,
                                             reqs[p].doc[1].participants)
                        ELSE tables
         /\ resp' = IF id \in DOMAIN tables /\ (writes \/ ~reqs[p].dirty)
                      THEN Respond(200, reqs[p].doc) ELSE Response(500)
  /\ before' = tables
  /\ UNCHANGED << nextId, creates >>

\* -------------------------------------------------------- specifications
\* Creation: requests of every shape, several tables.
CreateStep == \E c \in CreateInputs : Create(c.data, c.ext)
GetStep == \E id \in ReqIds : Get(id)
ExpireStep == \E id \in ReqIds : Expire(id)

Next == CreateStep \/ GetStep \/ ExpireStep

Spec == Init /\ [][Next]_vars

\* Participation: joins and removes, interleaved, on the first table
\* created (no other table is created), on an id that has no table and
\* on an id that is no ObjectId.
RaceId == 1
RaceIds == {RaceId, RaceId + 1}
JoinSaveStep == \E p \in Procs : JoinSave(p)
RemoveSaveStep == \E p \in Procs : RemoveSave(p)

CreatePlainStep ==
  nextId = RaceId /\ \E c \in PartInputs : Create(c.data, c.ext)
GetPlainStep == \E id \in RaceIds : Get(id)
JoinAnyStep ==
  \E p \in Procs, id \in RaceIds, name \in JoinNames :
    FreeSlot(p) /\ JoinFind(p, id, name)
RemoveAnyStep ==
  \E p \in Procs, id \in RaceIds, name \in ClientNames :
    FreeSlot(p) /\ RemoveFind(p, id, name)

JoinMalformedStep ==
  \E p \in Procs, name \in OneName :
    FreeSlot(p) /\ JoinFind(p, MalformedId, name)
RemoveMalformedStep ==
  \E p \in Procs, name \in OneName :
    FreeSlot(p) /\ RemoveFind(p, MalformedId, name)

NextPart ==
  \/ CreatePlainStep \/ GetPlainStep \/ ExpireStep
  \/ JoinAnyStep \/ JoinSaveStep \/ RemoveAnyStep \/ RemoveSaveStep
  \/ JoinMalformedStep \/ RemoveMalformedStep

SpecPart == Init /\ [][NextPart]_vars

\* Joins that give no proper name.
JoinBlankStep ==
  \E p \in Procs, id \in RaceIds, name \in BlankNames :
    FreeSlot(p) /\ JoinFind(p, id, name)

NextBlank ==
  CreatePlainStep \/ GetPlainStep \/ ExpireStep \/ JoinBlankStep \/ JoinSaveStep

SpecBlank == Init /\ [][NextBlank]_vars

\* The pages of a table: previews of the first table created, with the
\* joins and removes that change its participants, and game details.
CreateViewStep ==
  nextId = RaceId /\ \E c \in ViewInputs : Create(c.data, c.ext)
PreviewStep == \E id \in RaceIds \cup {MalformedId} : Preview(id)
JoinStep ==
  \E p \in Procs, name \in OneName : FreeSlot(p) /\ JoinFind(p, RaceId, name)
RemoveStep ==
  \E p \in Procs, name \in OneName :
    FreeSlot(p) /\ RemoveFind(p, RaceId, name)

GameDetailStep ==
  \E id \in GameIds : \E outcome \in OutcomesOrHang : GameDetail(id, outcome)

NextView ==
  \/ CreateViewStep \/ PreviewStep \/ GameDetailStep \/ ExpireStep
  \/ JoinStep \/ JoinSaveStep \/ RemoveStep \/ RemoveSaveStep

SpecView == Init /\ [][NextView]_vars

CreateExtStep == \E c \in ExtInputs : Create(c.data, c.ext)

NextExt == CreateExtStep \/ GetStep \/ ExpireStep

SpecExt == Init /\ [][NextExt]_vars

ClientCreateStep ==
  \E form \in Forms : \E ext \in ExtFor(Payload(form)) :
    ClientCreate(form, ext)

NextClient == ClientCreateStep \/ GetStep \/ ExpireStep

SpecClient == Init /\ [][NextClient]_vars

\* ------------------------------------------------------- label calls
\* A call of the label functions that waits to be evaluated.
LabelCalls ==
  {Request("getComplexity", 0, Undefined, Some([value |-> value])) :
     value \in ComplexityValues}
  \cup
  {Request("getPlayingTime", 0, Undefined, Some([min |-> min, max |-> max])) :
     min \in PlayingTimes, max \in PlayingTimes}

InitLabel ==
  /\ tables = << >>
  /\ before = << >>
  /\ nextId = 1
  /\ creates = 0
  /\ req \in LabelCalls
  /\ resp = NoResp
  /\ reqs = [p \in Procs |-> Idle]

\* Both complexity label functions on the same value; text holds the
\* server's label, then the client's.
ComplexityLabel ==
  /\ req.op = "getComplexity" /\ resp.text = << >>
  /\ resp' = [resp EXCEPT !.text = << getComplexity(req.body[1].value),
                                      clientGetComplexity(req.body[1].value) >>]
  /\ before' = tables
  /\ UNCHANGED << tables, nextId, creates, req, reqs >>

\* Both playing-time label functions on the same arguments.
PlayingTimeLabel ==
  /\ req.op = "getPlayingTime" /\ resp.text = << >>
  /\ LET min == req.body[1].min
         max == req.body[1].max
     IN  resp' = [resp EXCEPT !.text = << getPlayingTime(min, max),
                                         clientGetPlayingTime(min, max) >>]
  /\ before' = tables
  /\ UNCHANGED << tables, nextId, creates, req, reqs >>

NextLabel == ComplexityLabel \/ PlayingTimeLabel

SpecLabel == InitLabel /\ [][NextLabel]_vars

\* Requests of the shipped client on the tables it created.
CreateClientStep == \E c \in ClientInputs : Create(c.data, c.ext)
JoinFindStep ==
  \E p \in Procs, id \in ReqIds, name \in ClientNames : JoinFind(p, id, name)
RemoveFindStep ==
  \E p \in Procs, id \in ReqIds, name \in ClientNames : RemoveFind(p, id, name)

NextConc ==
  \/ CreateClientStep
  \/ JoinFindStep
  \/ JoinSaveStep
  \/ RemoveFindStep
  \/ RemoveSaveStep
  \/ ExpireStep

SpecConc == Init /\ [][NextConc]_vars

\* Requests racing on one table, the first one created; no other table
\* is created.
RaceInputs ==
  Bodies([date : {Some(WindowDays)}, time : {"18:00"}, location : {"Cafe"},
          playersNeeded : {Some(MaxPlayers)}, participants : {<< "Ann" >>}],
         {SingleMode})

CreateRaceStep ==
  nextId = RaceId /\ \E c \in RaceInputs : Create(c.data, c.ext)
JoinRaceStep ==
  \E p \in Procs, name \in ClientNames :
    FreeSlot(p) /\ JoinFind(p, RaceId, name)
RemoveRaceStep ==
  \E p \in Procs, name \in ClientNames :
    FreeSlot(p) /\ RemoveFind(p, RaceId, name)
ExpireRaceStep == Expire(RaceId)

NextRace ==
  \/ CreateRaceStep
  \/ JoinRaceStep
  \/ JoinSaveStep
  \/ RemoveRaceStep
  \/ RemoveSaveStep
  \/ ExpireRaceStep

SpecRace == Init /\ [][NextRace]_vars

\* ================================================================ claims
\* Helpers of the statements below.
Participants(store, id) == store[id].participants
Capacity(store, id) == store[id].playersNeeded
Body == req.body[1]

\* The join or remove that has just answered ran alone on its document:
\* between its findById and its save no other request wrote the document
\* and the collection did not drop it.
RanAlone == ~Body.overlapped

\* C1: every stored table has at most playersNeeded participants, from the
\* state right after its creation on (Spec).
CapacityInvariant ==
  \A id \in DOMAIN tables :
    Len(Participants(tables, id)) <= Capacity(tables, id)

\* C2: under interleaved joins, a join that succeeds found a free seat in
\* the document as stored right before its write, and leaves the table
\* within capacity (SpecConc).
JoinChecksFreshDocument ==
  (req.op = "join" /\ resp.status = 200)
    => /\ Len(Participants(before, req.id)) < Capacity(before, req.id)
       /\ Len(Participants(tables, req.id)) <= Capacity(tables, req.id)

\* C3: a join that no other request overlaps, on a table within capacity,
\* leaves it within capacity; a successful one had a free seat and adds
\* exactly one element, a failed one adds none (SpecPart).
SequentialJoinsKeepCapacity ==
  (/\ req.op = "join" /\ RanAlone
   /\ req.id \in DOMAIN before
   /\ Len(Participants(before, req.id)) <= Capacity(before, req.id))
    => /\ Len(Participants(tables, req.id)) <= Capacity(tables, req.id)
       /\ resp.status = 200 =>
            /\ Len(Participants(before, req.id)) < Capacity(before, req.id)
            /\ Len(Participants(tables, req.id))
                 = Len(Participants(before, req.id)) + 1
       /\ resp.status # 200 =>
            Len(Participants(tables, req.id))
              = Len(Participants(before, req.id))

\* C3 witness: a successful join that ran alone has just taken the last
\* of several seats.
JoinFilledLastSeat ==
  /\ req.op = "join" /\ resp.status = 200 /\ RanAlone
  /\ req.id \in DOMAIN tables
  /\ Len(Participants(tables, req.id)) = Capacity(tables, req.id)
  /\ Len(Participants(tables, req.id)) >= 2

\* C4: a join that finds the table full answers 400 and changes no stored
\* table, whatever the name and whatever other requests are in flight (a
\* join that found a free seat and saves after others took it is the
\* overlap of C2) (SpecPart).
JoinOnFullTableFails ==
  (/\ req.op = "join" /\ RanAlone
   /\ req.id \in DOMAIN before
   /\ Len(Participants(before, req.id)) = Capacity(before, req.id))
    => (resp.status = 400 /\ tables = before)

\* C4 witness: a join with a proper name was refused by a full table
\* while another request on the table was waiting for its save.
FullTableRefusedJoin ==
  /\ req.op = "join" /\ req.name = "Ann" /\ resp.status = 400
  /\ \E q \in Procs : reqs[q].pc # "idle" /\ reqs[q].id = req.id
  /\ req.id \in DOMAIN before
  /\ Capacity(before, req.id) >= 1
  /\ Len(Participants(before, req.id)) = Capacity(before, req.id)

\* C5: a join with a missing, empty or whitespace-only name does not
\* succeed and changes no stored table (SpecBlank).
BlankNameJoinFails ==
  (req.op = "join" /\ req.name \in BlankNames)
    => (resp.status # 200 /\ tables = before)

\* C6: remove on a stored table answers 200; the new list holds no element
\* equal to the name, holds every other element of the old list in the old
\* order, and is the old list if the name did not occur; no other table
\* changes; this for a remove that no other request overlaps (SpecPart).
RemoveDropsEveryMatch ==
  (req.op = "remove" /\ RanAlone /\ req.id \in DOMAIN before)
    => LET old == Participants(before, req.id)
           new == Participants(tables, req.id)
           kept == {i \in 1..Len(old) : old[i] # req.name}
           rank(i) == Cardinality({j \in kept : j <= i})
       IN  /\ resp.status = 200
           /\ Len(new) = Cardinality(kept)
           /\ \A i \in kept : new[rank(i)] = old[i]
           /\ \A k \in 1..Len(new) : new[k] # req.name
           /\ kept = 1..Len(old) => tables = before
           /\ tables = [before EXCEPT ![req.id].participants = new]

\* C6 witness: a remove has dropped two occurrences and kept another name.
RemovedTwoKeptOthers ==
  /\ req.op = "remove" /\ resp.status = 200 /\ RanAlone
  /\ req.id \in DOMAIN before
  /\ Len(Participants(before, req.id))
       = Len(Participants(tables, req.id)) + 2
  /\ Len(Participants(tables, req.id)) >= 1

\* C7: join and remove on an id that has no stored table when they look
\* it up, an id that is no ObjectId included, answer 404 and leave the
\* collection as it is, so the id stays without a table, whatever other
\* requests are in flight (SpecPart).
AbsentIdIsNotFound ==
  (/\ req.op \in {"join", "remove"} /\ RanAlone
   /\ req.id \notin DOMAIN before)
    => (resp.status = 404 /\ tables = before)

\* C8: a creation request dated later than now + 30 days answers 400, once,
\* makes no external call and saves nothing, in both modes (Spec).
LateDateRejected ==
  (/\ req.op = "create"
   /\ Body.data.date # None
   /\ Body.data.date[1] > WindowDays)
    => /\ resp.status = 400 /\ resp.sends = 1
       /\ resp.calls = 0
       /\ tables = before

\* C8 witness: a flexible request with a picked game, complete but dated
\* one day past the window, was refused.
LateFlexibleRefused ==
  /\ req.op = "create" /\ resp.status = 400
  /\ Body.data.date = Some(WindowDays + 1)
  /\ Body.data.isFlexible
  /\ NumPicked(Body.data.flexibleGames) >= 1
  /\ TableSchemaValid(Body.data)

\* A creation input the spec calls valid: required fields present, at
\* least one player, a non-empty game list in flexible mode.
ValidInput(data) ==
  /\ data.date # None
  /\ Truthy(data.time) /\ Truthy(data.location)
  /\ data.playersNeeded # None /\ data.playersNeeded[1] >= 1
  /\ data.isFlexible =>
       (data.flexibleGames # None /\ Len(data.flexibleGames[1]) >= 1)

\* C9: a valid creation request dated within the window answers 200 with
\* an id that get-by-id resolves at once (Spec).
ValidCreationSucceeds ==
  (/\ req.op = "create"
   /\ ValidInput(Body.data)
   /\ Body.data.date[1] <= WindowDays)
    => (resp.status = 200 /\ GetTable(tables, resp.id) = {200})

\* C10: a creation request lacking date, time or location, or with
\* playersNeeded < 1, answers 400 and saves nothing; every stored table has
\* playersNeeded >= 1 (Spec).
RequiredFieldsValidated ==
  /\ (/\ req.op = "create"
      /\ \/ Body.data.date = None
         \/ ~Truthy(Body.data.time)
         \/ ~Truthy(Body.data.location)
         \/ Body.data.playersNeeded = None
         \/ Body.data.playersNeeded[1] < 1)
       => (resp.status = 400 /\ tables = before)
  /\ \A id \in DOMAIN tables : Capacity(tables, id) >= 1

\* C11: a flexible creation request whose flexibleGames is missing (or no
\* list) or empty answers 400, once, makes no external call and saves
\* nothing (Spec).
FlexibleNeedsGames ==
  (/\ req.op = "create"
   /\ Body.data.isFlexible
   /\ \/ Body.data.flexibleGames = None
      \/ Len(Body.data.flexibleGames[1]) = 0)
    => /\ resp.status = 400 /\ resp.sends = 1
       /\ resp.calls = 0
       /\ tables = before

\* C11 witness: a flexible request, complete and dated within the window,
\* was refused for its empty game list.
EmptyGameListRefused ==
  /\ req.op = "create" /\ resp.status = 400
  /\ Body.data.isFlexible
  /\ Body.data.flexibleGames = Some(<< >>)
  /\ TableSchemaValid(Body.data)
  /\ Body.data.date = Some(WindowDays)

\* C12: after a flexible creation that saved a table, every input entry
\* without an id is stored at its input position with its name and no id,
\* and external calls were made for the entries with an id only (Spec).
CustomGamesPassThrough ==
  (/\ req.op = "create"
   /\ Body.data.isFlexible
   /\ tables # before)
    => LET input == Body.data.flexibleGames[1]
           stored == tables[nextId - 1].flexibleGames
       IN  /\ \A i \in 1..Len(input) :
                ~Truthy(input[i].id) =>
                  /\ i <= Len(stored)
                  /\ stored[i].name = input[i].name
                  /\ ~Truthy(stored[i].id)
           /\ resp.calls = NumPicked(Body.data.flexibleGames)

\* C13: every stored table with isFlexible = true has at least one entry in
\* flexibleGames, in every reachable state (Spec).
FlexibleTableHasGames ==
  \A id \in DOMAIN tables :
    tables[id].isFlexible => Len(tables[id].flexibleGames) >= 1

\* C14: a single-mode creation request with a gameId, complete and dated
\* within the window, saves the table and answers 200 with its id, and
\* sends no other response, whatever the outcome of the detail call (Spec).
MetadataFailureIsSwallowed ==
  (/\ req.op = "create"
   /\ ~Body.data.isFlexible
   /\ Truthy(Body.data.gameId)
   /\ TableSchemaValid(Body.data)
   /\ Body.data.date[1] <= WindowDays)
    => /\ resp.status = 200 /\ resp.sends = 1
       /\ resp.calls = 1
       /\ resp.id \in DOMAIN tables /\ resp.id \notin DOMAIN before

\* C15: a flexible creation request, complete, dated within the window and
\* with a non-empty list, answers 200 and stores one entry per input entry
\* with an id, in input order; one detail call is made for each; the entry
\* of a failed call is the placeholder (id and name of the input entry,
\* "N/A" elsewhere) and the entry of every other call is the fetched game,
\* whatever the outcomes of the calls before it (Spec).
FlexibleFailuresDegradeAlone ==
  (/\ req.op = "create"
   /\ Body.data.isFlexible
   /\ Body.data.flexibleGames # None
   /\ Len(Body.data.flexibleGames[1]) >= 1
   /\ TableSchemaValid(Body.data)
   /\ Body.data.date[1] <= WindowDays)
    => LET input == Body.data.flexibleGames[1]
           ext == req.body[1].ext
           picked == {i \in 1..Len(input) : Truthy(input[i].id)}
           rank(i) == Cardinality({j \in picked : j <= i})
       IN  /\ resp.status = 200 /\ resp.sends = 1
           /\ resp.id \in DOMAIN tables /\ resp.id \notin DOMAIN before
           /\ resp.calls = Cardinality(picked)
           /\ LET stored == tables[resp.id].flexibleGames IN
              /\ Len(stored) = Cardinality(picked)
              /\ \A i \in picked :
                   IF ext[rank(i)] = "ok"
                     THEN /\ stored[rank(i)].id = input[i].id
                          /\ stored[rank(i)].name = BggDb(input[i].id).name
                          /\ stored[rank(i)].minPlayingTime
                               = BggDb(input[i].id).minplaytime
                     ELSE stored[rank(i)] =
                            [id |-> input[i].id, name |-> input[i].name,
                             minPlayingTime |-> "N/A",
                             maxPlayingTime |-> "N/A",
                             complexity |-> "N/A"]

\* C15 witness: of two picked games the first lookup failed and the second
\* succeeded; the table holds the placeholder, then the fetched game.
FailedThenFetched ==
  /\ req.op = "create" /\ resp.status = 200
  /\ Body.data.isFlexible
  /\ NumPicked(Body.data.flexibleGames) = 2
  /\ req.body[1].ext[1] # "ok" /\ req.body[1].ext[2] = "ok"
  /\ resp.id \in DOMAIN tables
  /\ Len(tables[resp.id].flexibleGames) = 2
  /\ tables[resp.id].flexibleGames[1].minPlayingTime = "N/A"
  /\ tables[resp.id].flexibleGames[2].minPlayingTime # "N/A"

\* C16: in every reachable state a stored table with isFlexible = true has
\* no gameName, gameId or gameData, and one with isFlexible = false has no
\* flexibleGames entry, whatever the creation request carried (Spec).
ModesAreExclusive ==
  \A id \in DOMAIN tables :
    IF tables[id].isFlexible
      THEN /\ tables[id].gameName = Undefined
           /\ tables[id].gameId = Undefined
           /\ tables[id].gameData = None
      ELSE tables[id].flexibleGames = << >>

\* C16 witness: a flexible request that carried gameName, gameId and
\* gameData as well has been saved.
StrayFieldsStripped ==
  /\ req.op = "create" /\ resp.status = 200
  /\ Body.data.isFlexible
  /\ Body.data.gameName = "Catan" /\ Body.data.gameId = "g1"
  /\ Body.data.gameData # None
  /\ resp.id \in DOMAIN tables
  /\ tables[resp.id].isFlexible
  /\ Len(tables[resp.id].flexibleGames) >= 1

\* A table document with its participants list blanked.
Frame(table) == [table EXCEPT !.participants = << >>]

\* C17: no step changes anything but the participants list of a table that
\* stays stored, so every field but participants keeps its creation-time
\* value; join and remove, successful or not, alone or overlapped, neither
\* add nor drop a table (SpecView).
ParticipationFrame ==
  /\ \A id \in DOMAIN before \cap DOMAIN tables :
       Frame(tables[id]) = Frame(before[id])
  /\ req.op \in {"join", "remove"} => DOMAIN tables = DOMAIN before

\* C17 witness: a join has added a participant to a flexible table that
\* holds fetched games.
JoinedFlexibleTable ==
  /\ req.op = "join" /\ resp.status = 200
  /\ req.id \in DOMAIN before
  /\ tables[req.id].isFlexible
  /\ Len(tables[req.id].flexibleGames) >= 1
  /\ Len(tables[req.id].participants) > Len(before[req.id].participants)

\* C18: a remove on a stored table leaves it stored, also when it empties
\* the participants list: get-by-id resolves it right after, and a join
\* with a proper name succeeds on every stored table that has a free seat,
\* whatever removes came before (SpecPart).
RemoveKeepsTable ==
  /\ (req.op = "remove" /\ req.id \in DOMAIN before)
       => /\ req.id \in DOMAIN tables
          /\ GetTable(tables, req.id) = {200}
          /\ DOMAIN tables = DOMAIN before
  /\ (/\ req.op = "join"
      /\ req.name \in {"Ann", "Bob"}
      /\ req.id \in DOMAIN before
      /\ Len(Participants(before, req.id)) < Capacity(before, req.id))
       => /\ resp.status = 200
          /\ Participants(tables, req.id)
               = Append(Participants(before, req.id), req.name)

\* C18 witness: a remove has emptied the participants list of a table
\* that is still stored and has seats.
RemoveEmptiedTable ==
  /\ req.op = "remove" /\ resp.status = 200
  /\ req.id \in DOMAIN before /\ req.id \in DOMAIN tables
  /\ Participants(before, req.id) # << >>
  /\ Participants(tables, req.id) = << >>
  /\ Capacity(tables, req.id) >= 1

\* C19: after a successful join the stored participants list is the list
\* stored before its save with the name added as its last element, every
\* earlier element at its old position, and the response of a join that
\* no other request overlapped carries the table as stored; a join with
\* a name that is given succeeds on a table with a free seat also when the
\* name occurs in the list already (SpecPart).
JoinAppendsName ==
  /\ (req.op = "join" /\ resp.status = 200)
       => /\ req.id \in DOMAIN before
          /\ LET old == Participants(before, req.id)
                 new == Participants(tables, req.id)
             IN  /\ Len(new) = Len(old) + 1
                 /\ \A i \in 1..Len(old) : new[i] = old[i]
                 /\ new[Len(new)] = req.name
          /\ RanAlone => resp.doc = Some(tables[req.id])
  /\ (/\ req.op = "join"
      /\ req.id \in DOMAIN before
      /\ Len(Participants(before, req.id)) < Capacity(before, req.id)
      /\ \E i \in 1..Len(Participants(before, req.id)) :
           Participants(before, req.id)[i] = req.name)
       => resp.status = 200

\* C19 witness: a join has added a name behind an earlier occurrence of
\* itself.
JoinedTwice ==
  /\ req.op = "join" /\ resp.status = 200 /\ RanAlone
  /\ req.id \in DOMAIN before
  /\ Participants(before, req.id) = << "Ann" >>
  /\ req.name = "Ann"
  /\ Participants(tables, req.id) = << "Ann", "Ann" >>

\* C20: right after a creation the client made from a form, the table it
\* saved has participants = [organizerName] if organizerJoins is set and
\* no participant otherwise, and a single-mode form gives a table with
\* isFlexible = false (SpecClient).
OrganizerAutoJoin ==
  (/\ req.op = "create"
   /\ Body.form # None
   /\ tables # before)
    => LET form == Body.form[1]
           table == tables[nextId - 1]
       IN  /\ DOMAIN tables = DOMAIN before \cup {nextId - 1}
           /\ form.organizerJoins
                => table.participants = << form.organizerName >>
           /\ ~form.organizerJoins => table.participants = << >>
           /\ ~form.isFlexible => ~table.isFlexible

\* C20 witness: a single-mode form with organizerJoins set and several
\* seats was submitted by Ann and answered with the id of the new table.
OrganizerJoinedOwnTable ==
  /\ req.op = "create" /\ resp.status = 200
  /\ Body.form # None
  /\ Body.form[1].organizerJoins
  /\ Body.form[1].organizerName = "Ann"
  /\ ~Body.form[1].isFlexible
  /\ Body.form[1].playersNeeded >= 2
  /\ resp.id \in DOMAIN tables
  /\ tables[resp.id].participants = << "Ann" >>

\* C21: the complexity label of a missing or empty value is "N/A", and the
\* label of a value given with two decimals is "<Category> (<value>)" with
\* Light below 2, Medium below 3, Medium-Heavy below 4 and Heavy from 4 on,
\* on the server and on the client; the label of 1.50 is "Light (1.50)"
\* (SpecLabel).
ComplexityLabelByThresholds ==
  (req.op = "getComplexity" /\ resp.text # << >>) =>
    LET v == Body.value
        Category(h) == IF h < 200 THEN "Light"
                       ELSE IF h < 300 THEN "Medium"
                       ELSE IF h < 400 THEN "Medium-Heavy"
                       ELSE "Heavy"
    IN  /\ v \in {Undefined, ""} => resp.text = << "N/A", "N/A" >>
        /\ \A h \in 0..MaxWeight :
             v = WeightText[h] =>
               /\ resp.text[1] = Category(h) \o " (" \o v \o ")"
               /\ resp.text[2] = resp.text[1]
        /\ v = "1.50" => resp.text[1] = "Light (1.50)"

\* C21 witness: the label of the first value of the Medium band was built.
LabelledAtThreshold ==
  /\ req.op = "getComplexity"
  /\ Body.value = "2.00"
  /\ resp.text = << "Medium (2.00)", "Medium (2.00)" >>

\* C30: for every complexity value a table can hold the server's label
\* equals the client's label, and for the sentinel "N/A" both labels are
\* "N/A" (SpecLabel).
ComplexityLabelsAgree ==
  (req.op = "getComplexity" /\ resp.text # << >>)
    => /\ resp.text[1] = resp.text[2]
       /\ Body.value = "N/A" => resp.text = << "N/A", "N/A" >>

\* C22: the duration text of the preview of a single-game table is the
\* playing-time label of its game data: "N/A" if a playing time is
\* missing, "<min> min" if both are equal, "<min>-<max> min" otherwise
\* (SpecView).
PreviewDurationLabel ==
  (/\ req.op = "preview" /\ resp.status = 200
   /\ ~tables[req.id].isFlexible)
    => LET table == tables[req.id]
           min == IF table.gameData = None THEN Undefined
                  ELSE table.gameData[1].minPlayingTime
           max == IF table.gameData = None THEN Undefined
                  ELSE table.gameData[1].maxPlayingTime
           complexity == IF table.gameData = None THEN Undefined
                         ELSE table.gameData[1].complexity
           label == IF min \in {Undefined, ""} \/ max \in {Undefined, ""}
                      THEN "N/A"
                    ELSE IF min = max THEN min \o " min"
                    ELSE min \o "-" \o max \o " min"
       IN  resp.text[2] = "Duration: " \o label \o "; Complexity: "
                            \o getComplexity(complexity)

\* C23: a preview of an absent id is answered 404; the preview title of
\* a stored table is the game name (single mode) or the joined names of
\* the flexible games (flexible mode), then the formatted date, the
\* time, the location and the first participant, "Unknown" if there is
\* none (SpecView).
PreviewTitleComposed ==
  req.op = "preview" =>
    IF req.id \notin DOMAIN tables THEN resp.status = 404
    ELSE LET table == tables[req.id]
             names == IF table.isFlexible
                        THEN JoinGameNames(table.flexibleGames)
                        ELSE PreviewGameName(table)
             first == IF table.participants = << >> THEN "Unknown"
                      ELSE table.participants[1]
         IN  /\ resp.status = 200
             /\ resp.text[1] =
                  names \o Separator \o formatDate(table.date) \o Separator
                    \o table.time \o Separator \o table.location
                    \o " by " \o first

\* C24: a game-detail lookup whose external record lacks a name is
\* answered 404, with exactly one response (SpecView).
GameDetailNoNameNotFound ==
  (req.op = "game" /\ Body.ext[1] = "noname")
    => resp.status = 404 /\ resp.sends = 1

\* C25: in a flexible-mode creation the external calls are made one
\* after the other, and between any two successive calls the handler
\* pauses, whether the earlier call succeeded or failed (Spec).
PauseBetweenCalls ==
  req.op = "create" =>
    \A i \in 1..(Len(resp.events) - 1) :
      resp.events[i] = "call" => resp.events[i + 1] = "sleep"

\* C26: a creation makes at most one external call for each game that
\* has an id, and it is answered, also when an external call fails or
\* is never answered (SpecExt).
CreateAnsweredWithoutRetry ==
  req.op = "create" =>
    /\ resp.calls <= NumCalls(Body.data)
    /\ resp.status # 0

\* C27: a creation request whose body the schema accepts sends exactly
\* one response, on every path: it never sends twice (Spec).
CreateRespondsOnce ==
  (req.op = "create" /\ TableSchemaValid(Body.data)) => resp.sends = 1

\* C28: under any interleaving of the load and save steps of joins and
\* removes on one table, the name of a join that is answered with
\* success is stored, and a stored name leaves the stored list only by
\* the save of a remove of exactly that name (SpecRace).
NoLostJoin ==
  /\ (req.op = "join" /\ resp.status = 200)
       => /\ req.id \in DOMAIN tables
          /\ \E i \in DOMAIN Participants(tables, req.id) :
               Participants(tables, req.id)[i] = req.name
  /\ \A id \in DOMAIN before \cap DOMAIN tables :
       \A i \in DOMAIN Participants(before, id) :
         LET n == Participants(before, id)[i] IN
         (\A j \in DOMAIN Participants(tables, id) :
            Participants(tables, id)[j] # n)
           => req.op = "remove" /\ req.id = id /\ req.name = n

\* A join was saved while a remove of another name, loaded before it,
\* waits for its save.
JoinSavedDuringRemove ==
  /\ req.op = "join" /\ resp.status = 200
  /\ \E q \in Procs :
       /\ reqs[q].pc = "remove" /\ reqs[q].id = req.id
       /\ reqs[q].name # req.name /\ reqs[q].dirty /\ reqs[q].stale

\* C29: the first participant of a stored table stays the first one over
\* every join and every remove of another name: only a remove of exactly
\* that name takes it from the first place (SpecPart).
OrganizerStaysFirst ==
  \A id \in DOMAIN before \cap DOMAIN tables :
    Participants(before, id) # << >>
      => \/ /\ Participants(tables, id) # << >>
            /\ Head(Participants(tables, id)) = Head(Participants(before, id))
         \/ /\ req.op = "remove" /\ req.id = id
            /\ req.name = Head(Participants(before, id))

\* C29 witness: another name was removed from between the organizer and a
\* third participant: the organizer is still first, the third one second.
OtherNameRemoved ==
  /\ req.op = "remove" /\ resp.status = 200
  /\ req.id \in DOMAIN before
  /\ Len(Participants(before, req.id)) = 3
  /\ Participants(before, req.id)[2] = req.name
  /\ Participants(before, req.id)[1] # req.name
  /\ Participants(before, req.id)[3] \notin {req.name, Participants(before, req.id)[1]}
  /\ Participants(tables, req.id)
       = << Participants(before, req.id)[1], Participants(before, req.id)[3] >>
====
